---- MODULE Spec2Model ----
(***************************************************************************)
(* On-screen-keyboard detector.                                            *)
(*                                                                         *)
(*   src/lib/index.js      strategy selection and the multi-signal        *)
(*                         detector (a graph of @most/core streams run on  *)
(*                         one scheduler per subscription)                 *)
(*   src/unnamed/part_000  the visual-viewport detector used on iOS        *)
(*   src/unnamed/part_001  the focus-based event emitter                   *)
(*                                                                         *)
(* Time is counted in ticks of 100 ms, the greatest common divisor of the  *)
(* delays of index.js.  A scheduler task is a record with the ticks left   *)
(* until it is due; the tasks of one scheduler are kept in the order they  *)
(* were scheduled, which is the order @most/scheduler runs the tasks of    *)
(* one instant in.  A handler of a DOM event runs to its end in one step;  *)
(* so does one run of a scheduler over the tasks that are due, together    *)
(* with the microtask runs it sets off (the emissions of now()).           *)
(***************************************************************************)
EXTENDS Integers, Sequences, FiniteSets, TLC

VARIABLES
    platform,         \* navigator.userAgent / 'ontouchend' / 'visualViewport' probes
    innerWidth,       \* window.innerWidth
    innerHeight,      \* window.innerHeight
    orientation,      \* screen.orientation.type, reduced by getScreenOrientationType
    visibilityState,  \* document.visibilityState
    activeElement,    \* TRUE iff document.activeElement is an element other than body
    clients,          \* the consumers on the page that call subscribe
    emitter,          \* the EventEmitter exported by part_001
    sub,              \* per consumer: the state of its subscription
    nEvents           \* number of DOM events dispatched so far

vars == <<platform, innerWidth, innerHeight, orientation, visibilityState,
          activeElement, clients, emitter, sub, nEvents>>

envVars == <<platform, innerWidth, innerHeight, orientation, visibilityState,
             activeElement, clients, emitter>>

----------------------------------------------------------------------------
(* Bounds of the model *)

MaxEvents == 3
\* DOM events dispatched on a page with two consumers
MaxEventsTwo == 1
\* calls of one returned unsubscribe function that are told apart
MaxCalls == 2
\* focus events dispatched to the listeners of part_001
MaxEmitterEvents == 4

Consumers == {1, 2}

Orientations == {"portrait", "landscape"}

\* window.innerHeight / innerWidth values the browser may report
Heights == {600, 630, 700}
Widths == {400, 800}
\* heights carried by a visual-viewport resize event, and window heights on iOS
ViewportHeights == {600, 720, 790, 800}
IOSHeights == {700, 800}

\* screen.availHeight in each orientation
AvailHeight(o) == IF o = "portrait" THEN 800 ELSE 650

\* The platforms: the two iOS families (with and without window.visualViewport)
\* and a touch device of another family.
Platforms ==
    { [isIOS |-> TRUE,  isTouchable |-> TRUE, isVisualViewportSupported |-> TRUE],
      [isIOS |-> TRUE,  isTouchable |-> TRUE, isVisualViewportSupported |-> FALSE],
      [isIOS |-> FALSE, isTouchable |-> TRUE, isVisualViewportSupported |-> FALSE] }

----------------------------------------------------------------------------
(* Program constants, in ms *)

INPUT_ELEMENT_FOCUS_JUMP_DELAY == 700
SCREEN_ORIENTATION_TO_WINDOW_RESIZE_DELAY == 700
RESIZE_QUIET_PERIOD == 500
LAYOUT_HEIGHT_DELAY == 1000

Max(a, b) == IF a >= b THEN a ELSE b

LAYOUT_RESIZE_TO_LAYOUT_HEIGHT_FIX_DELAY ==
    Max(INPUT_ELEMENT_FOCUS_JUMP_DELAY, SCREEN_ORIENTATION_TO_WINDOW_RESIZE_DELAY)
        - RESIZE_QUIET_PERIOD + 200

\* a delay in ticks
Ticks(ms) == (ms + 99) \div 100

----------------------------------------------------------------------------
(* Helpers *)

\* ramda assoc on a map kept as a function
assoc(k, v, m) == [x \in (DOMAIN m) \cup {k} |-> IF x = k THEN v ELSE m[x]]

EmptyMap == [x \in {} |-> 0]

RemoveAt(seq, k) == [j \in 1..(Len(seq) - 1) |-> IF j < k THEN seq[j] ELSE seq[j + 1]]

SelectSeqNot(seq, kind) == SelectSeq(seq, LAMBDA t : t.kind # kind)

\* the last two values of a log
Last2(seq) == IF Len(seq) <= 2 THEN seq ELSE SubSeq(seq, Len(seq) - 1, Len(seq))

\* A scheduler task.  o, h, d, f, v carry the value the task delivers; hid, unf
\* and eq record, for the properties below, the document visibility, the
\* isUnfocused value and the height test at the DOM event the task stems from;
\* pre is the window height at that event, uf the isUnfocused value when the
\* debounce of the event was over.
Last3(seq) == IF Len(seq) <= 3 THEN seq ELSE SubSeq(seq, Len(seq) - 2, Len(seq))

Task(kind, ms) ==
    [kind |-> kind, due |-> Ticks(ms), o |-> "-", h |-> 0, d |-> 0, f |-> FALSE,
     v |-> "-", hid |-> FALSE, unf |-> FALSE, eq |-> FALSE, pre |-> 0, uf |-> FALSE]

NoSample == [h |-> 0, d |-> 0, base |-> 0, avail |-> 0, result |-> "-", hid |-> FALSE]
NoWrite == [kind |-> "-", o |-> "-", h |-> 0, f |-> FALSE, unf |-> FALSE, eq |-> FALSE,
            hid |-> FALSE, win |-> 0]

NoConfirm == [before |-> "-", after |-> "-", called |-> FALSE]

\* The state of one consumer's subscription.
\*   status     "none" before subscribe, "active", "noop" (the unsupported case),
\*              "ended" once the returned function was called
\*   previous   the value kept by skipDuplicates / skipRepeats
\*   the fields from cb on are history: they record what happened and are read
\*   by no operation
\*     cb              the last two values the consumer's callback was called with
\*     vvLog           the last three visual-viewport resize events handled
\*     lastSample      the last resize sample the decision of osk was applied to
\*     lastWrite       the last value scan let into the map of layout heights
\*     lastGate        what rejectCapture did with the last candidate
\*     lastConfirm     the callback state around the last isUnfocused false -> true
\*     confirmPending  no callback was called since that change
\*     cancelled       the tasks unsubscribe found scheduled
\*     superseded      a focusin disposed a pending at(700, true)
\*     warned          console.warn was called
NoSub ==
    [status |-> "none", calls |-> 0, previous |-> "initial",
     isUnfocused |-> FALSE, documentVisibility |-> "-",
     initialLayoutHeight |-> 0, approximateBrowserToolbarHeight |-> 0,
     accHeights |-> EmptyMap, layoutHeights |-> EmptyMap, skipping |-> FALSE,
     resizeScan |-> [width |-> 0, height |-> 0],
     tasks |-> <<>>,
     cb |-> <<>>, vvLog |-> <<>>, lastSample |-> NoSample, lastWrite |-> NoWrite,
     lastGate |-> "-", lastConfirm |-> NoConfirm, confirmPending |-> FALSE,
     cancelled |-> 0, superseded |-> FALSE, warned |-> FALSE]

----------------------------------------------------------------------------
(* Strategy selection: src/lib/index.js 15-41 *)

isIOS == platform.isIOS

\* ios.isSupported (part_000)
iosIsSupported == platform.isVisualViewportSupported

\* isSupported (index.js)
isSupported == IF isIOS THEN iosIsSupported ELSE platform.isTouchable

getScreenOrientationType == orientation

isAnyElementActive == activeElement

----------------------------------------------------------------------------
(* Strategy A: src/unnamed/part_000 *)

\* skipDuplicates(callback)(next)
nonRepeatingCallback(s, next) ==
    IF next # s.previous
    THEN [s EXCEPT !.previous = next, !.cb = Last2(Append(@, next))]
    ELSE s

\* the threshold test with >= for >
ViewportClassGe(inner, height) ==
    IF inner > 0 /\ 10 * (inner - height) >= inner THEN "visible" ELSE "hidden"

\* (window.innerHeight - evt.target.height) / window.innerHeight > 0.1
\* The quotient is -Infinity or NaN for a window height of 0, and the test false.
ViewportClass(inner, height) ==
    IF inner > 0 /\ 10 * (inner - height) > inner THEN "visible" ELSE "hidden"

onResize(s, height) ==
    LET class == ViewportClass(innerHeight, height)
        s1 == nonRepeatingCallback(s, class)
    IN [s1 EXCEPT !.vvLog = Last3(Append(@, [height |-> height, inner |-> innerHeight,
                                             class |-> class,
                                             called |-> s1.cb # s.cb]))]

\* ios.subscribe without the isSupported test
iosSubscribeNoCheck(s) == [s EXCEPT !.status = "active"]

iosSubscribe(s) ==
    IF ~iosIsSupported
    THEN [s EXCEPT !.status = "noop", !.warned = TRUE]
    ELSE [s EXCEPT !.status = "active"]

\* the function returned by ios.subscribe: removeEventListener, or () => undefined
iosUnsubscribe(s) ==
    IF s.status = "active" THEN [s EXCEPT !.status = "ended"] ELSE s

----------------------------------------------------------------------------
(* Strategy B: src/lib/index.js, initWithCallback *)

\* Deliver without skipRepeats
DeliverAlways(s, v) ==
    [s EXCEPT !.previous = v, !.cb = Last2(Append(@, v)), !.confirmPending = FALSE]

\* until(userUnsubscription), skipRepeats, tap(userCallback): lines 170-174
Deliver(s, v) ==
    IF v = s.previous
    THEN s
    ELSE [s EXCEPT !.previous = v, !.cb = Last2(Append(@, v)), !.confirmPending = FALSE]

\* EmitUnfocused without the merge of lines 166-169: no forced 'hidden'
EmitUnfocusedNoHidden(s, x) ==
    IF x = s.isUnfocused
    THEN s
    ELSE IF ~x
         THEN [s EXCEPT !.isUnfocused = FALSE]
         ELSE LET cand == [Task("base", LAYOUT_HEIGHT_DELAY) EXCEPT
                             !.o = getScreenOrientationType, !.h = innerHeight,
                             !.d = innerHeight, !.v = "unfocus", !.unf = TRUE,
                             !.hid = (visibilityState = "hidden")]
              IN [s EXCEPT !.isUnfocused = TRUE, !.tasks = Append(@, cand)]

\* EmitUnfocused without skipRepeats (line 74)
EmitUnfocusedRepeat(s, x) ==
    IF ~x
    THEN [s EXCEPT !.isUnfocused = FALSE]
    ELSE LET s1 == [Deliver(s, "hidden") EXCEPT !.isUnfocused = TRUE]
             cand == [Task("base", LAYOUT_HEIGHT_DELAY) EXCEPT
                        !.o = getScreenOrientationType, !.h = innerHeight,
                        !.d = innerHeight, !.v = "unfocus", !.unf = TRUE,
                        !.hid = (visibilityState = "hidden")]
         IN [s1 EXCEPT !.tasks = Append(@, cand)]

\* EmitUnfocused whose candidate carries the window height at subscribe
EmitUnfocusedStale(s, x) ==
    IF x = s.isUnfocused
    THEN s
    ELSE IF ~x
         THEN [s EXCEPT !.isUnfocused = FALSE]
         ELSE LET s1 == [Deliver(s, "hidden") EXCEPT !.isUnfocused = TRUE]
                  cand == [Task("base", LAYOUT_HEIGHT_DELAY) EXCEPT
                             !.o = getScreenOrientationType,
                             !.h = s.initialLayoutHeight,
                             !.d = innerHeight, !.v = "unfocus", !.unf = TRUE,
                             !.hid = (visibilityState = "hidden")]
              IN [s1 EXCEPT !.tasks = Append(@, cand)]

\* isUnfocused emits x (after skipRepeats, line 74) to its three observers, in
\* the order they subscribed: the forced 'hidden' of osk (166-169),
\* layoutHeightOnUnfocus (92-96, its candidate enters delay(1000) of line 112),
\* and the snapshot of layoutHeightOnOSKFreeOrientationChange (81-84).
EmitUnfocused(s, x) ==
    IF x = s.isUnfocused
    THEN s
    ELSE IF ~x
         THEN [s EXCEPT !.isUnfocused = FALSE]
         ELSE LET s1 == [Deliver(s, "hidden") EXCEPT !.isUnfocused = TRUE]
                  cand == [Task("base", LAYOUT_HEIGHT_DELAY) EXCEPT
                             !.o = getScreenOrientationType, !.h = innerHeight,
                             !.d = innerHeight, !.v = "unfocus", !.unf = TRUE,
                             !.hid = (visibilityState = "hidden")]
              IN [s1 EXCEPT !.tasks = Append(@, cand)]

\* the scan of layoutHeights without skipAfter: every map reaches the snapshot
ScanLayoutHeightsNoSkip(s, t) ==
    LET acc == assoc(t.o, t.h, s.accHeights)
    IN [s EXCEPT !.accHeights = acc,
                 !.layoutHeights = acc,
                 !.skipping = (Orientations \ DOMAIN acc = {}),
                 !.lastWrite = [kind |-> t.v, o |-> t.o, h |-> t.h, f |-> t.f,
                                unf |-> t.unf, eq |-> t.eq, hid |-> t.hid,
                                win |-> t.d]]

\* the scan of layoutHeights (114-120) followed by skipAfter (121); the snapshot
\* of osk keeps the last map that skipAfter let through
ScanLayoutHeights(s, t) ==
    LET acc == assoc(t.o, t.h, s.accHeights)
    IN IF s.skipping
       THEN [s EXCEPT !.accHeights = acc]
       ELSE [s EXCEPT !.accHeights = acc,
                      !.layoutHeights = acc,
                      !.skipping = (Orientations \ DOMAIN acc = {}),
                      !.lastWrite = [kind |-> t.v, o |-> t.o, h |-> t.h, f |-> t.f,
                                     unf |-> t.unf, eq |-> t.eq, hid |-> t.hid,
                                     win |-> t.d]]

\* the decision with <= for < in the test against 0.9 of the layout height
ClassifyLe(layoutHeightByOrientation, o, height, dH, availHeight) ==
    LET nonOSKLayoutHeight ==
            IF o \in DOMAIN layoutHeightByOrientation
            THEN layoutHeightByOrientation[o] ELSE 0
    IN IF nonOSKLayoutHeight = 0
       THEN IF 10 * dH > availHeight THEN "hidden"
            ELSE IF 10 * dH < -availHeight THEN "visible"
            ELSE "none"
       ELSE IF 10 * height <= 9 * nonOSKLayoutHeight /\ dH < 0 THEN "visible"
            ELSE IF height = nonOSKLayoutHeight /\ dH > 0 THEN "hidden"
            ELSE "none"

\* the decision with no fallback to screen.availHeight
ClassifyNoFallback(layoutHeightByOrientation, o, height, dH, availHeight) ==
    LET nonOSKLayoutHeight ==
            IF o \in DOMAIN layoutHeightByOrientation
            THEN layoutHeightByOrientation[o] ELSE 0
    IN IF nonOSKLayoutHeight = 0
       THEN "none"
       ELSE IF 10 * height < 9 * nonOSKLayoutHeight /\ dH < 0 THEN "visible"
            ELSE IF height = nonOSKLayoutHeight /\ dH > 0 THEN "hidden"
            ELSE "none"

\* the decision of osk, lines 149-162; "none" stands for empty()
Classify(layoutHeightByOrientation, o, height, dH, availHeight) ==
    LET nonOSKLayoutHeight ==
            IF o \in DOMAIN layoutHeightByOrientation
            THEN layoutHeightByOrientation[o] ELSE 0
    IN IF nonOSKLayoutHeight = 0
       THEN IF 10 * dH > availHeight THEN "hidden"
            ELSE IF 10 * dH < -availHeight THEN "visible"
            ELSE "none"
       ELSE IF 10 * height < 9 * nonOSKLayoutHeight /\ dH < 0 THEN "visible"
            ELSE IF height = nonOSKLayoutHeight /\ dH > 0 THEN "hidden"
            ELSE "none"

\* rejectCapture that lets every candidate through
RejectCaptureOpen(s, t) ==
    [s EXCEPT !.tasks = Append(@, [t EXCEPT !.kind = "scan"]),
              !.lastGate = IF s.documentVisibility = "hidden" THEN "dropped" ELSE "passed"]

\* rejectCapture (26, 113): the candidate that left delay(1000) is dropped while
\* the last document visibility seen is 'hidden', else handed on with now()
RejectCapture(s, t) ==
    IF s.documentVisibility = "hidden"
    THEN [s EXCEPT !.lastGate = "dropped"]
    ELSE [s EXCEPT !.tasks = Append(@, [t EXCEPT !.kind = "scan"]),
                   !.lastGate = "passed"]

\* at(INPUT_ELEMENT_FOCUS_JUMP_DELAY, true) of line 70 fires
ConfirmUnfocus(s) ==
    LET s1 == EmitUnfocused(s, TRUE)
    IN IF s.isUnfocused
       THEN s1
       ELSE [s1 EXCEPT !.lastConfirm = [before |-> s.previous, after |-> s1.previous,
                                        called |-> s1.cb # s.cb],
                       !.confirmPending = (s1.cb = s.cb)]

\* the candidate made from a test taken when the debounce is over: isUnfocused
\* then, or the window height then equal to the one at the change event
OrientationCandidateLate(s, t) ==
    LET isOSKFree == s.isUnfocused \/ (innerHeight = t.pre)
        cand == [Task("base", LAYOUT_HEIGHT_DELAY) EXCEPT
                   !.o = getScreenOrientationType,
                   !.h = IF isOSKFree THEN innerHeight
                         ELSE AvailHeight(orientation)
                                - s.approximateBrowserToolbarHeight,
                   !.d = innerHeight,
                   !.v = "orient", !.f = t.f, !.unf = t.unf, !.eq = t.eq,
                   !.hid = t.hid, !.pre = t.pre, !.uf = s.isUnfocused]
    IN [s EXCEPT !.tasks = Append(@, cand)]

\* layoutHeightOnOSKFreeOrientationChange after its debounce: the map of 86-89
\* on the isOSKFree value the snapshot took at the event; the candidate enters
\* delay(1000) of line 112
OrientationCandidate(s, t) ==
    LET cand == [Task("base", LAYOUT_HEIGHT_DELAY) EXCEPT
                   !.o = getScreenOrientationType,
                   !.h = IF t.f THEN innerHeight
                         ELSE AvailHeight(orientation)
                                - s.approximateBrowserToolbarHeight,
                   !.d = innerHeight,
                   !.v = "orient", !.f = t.f, !.unf = t.unf, !.eq = t.eq,
                   !.hid = t.hid, !.pre = t.pre, !.uf = s.isUnfocused]
    IN [s EXCEPT !.tasks = Append(@, cand)]

\* the scan that keeps its previous size when the width differs
ScanResizeKeepPrev(s, t) ==
    LET isJustHeightResize == s.resizeScan.width = innerWidth
        dH == innerHeight - s.resizeScan.height
        s1 == [s EXCEPT !.resizeScan = [width |-> innerWidth,
                                        height |-> innerHeight]]
        settle == [Task("settle", LAYOUT_RESIZE_TO_LAYOUT_HEIGHT_FIX_DELAY)
                     EXCEPT !.h = innerHeight, !.d = dH, !.hid = t.hid]
    IN IF isJustHeightResize
       THEN [s1 EXCEPT !.tasks = Append(@, settle)]
       ELSE s

\* layoutHeightOnVerticalResize after its debounce: map (127), scan (128-141),
\* filter (142); a sample that passes enters the delay of line 147
ScanResize(s, t) ==
    LET isJustHeightResize == s.resizeScan.width = innerWidth
        dH == innerHeight - s.resizeScan.height
        s1 == [s EXCEPT !.resizeScan = [width |-> innerWidth,
                                        height |-> innerHeight]]
        settle == [Task("settle", LAYOUT_RESIZE_TO_LAYOUT_HEIGHT_FIX_DELAY)
                     EXCEPT !.h = innerHeight, !.d = dH, !.hid = t.hid]
    IN IF isJustHeightResize
       THEN [s1 EXCEPT !.tasks = Append(@, settle)]
       ELSE s1

\* One task of the scheduler, run when it is due.
RunTask(s, t) ==
    CASE t.kind = "focus" ->
           ConfirmUnfocus(s)
      [] t.kind = "orient" ->     \* debounce of line 85 is over
           OrientationCandidate(s, t)
      [] t.kind = "base" ->       \* delay(1000) of line 112 is over
           RejectCapture(s, t)
      [] t.kind = "scan" ->       \* now(event) of rejectCapture, joined
           ScanLayoutHeights(s, t)
      [] t.kind = "resize" ->     \* debounce of line 126 is over
           ScanResize(s, t)
      [] t.kind = "settle" ->     \* delay of line 147 is over: snapshot, 148-164
           LET base == IF getScreenOrientationType \in DOMAIN s.layoutHeights
                       THEN s.layoutHeights[getScreenOrientationType] ELSE 0
               r == Classify(s.layoutHeights, getScreenOrientationType, t.h, t.d,
                             AvailHeight(orientation))
               s1 == [s EXCEPT !.lastSample =
                          [h |-> t.h, d |-> t.d, base |-> base,
                           avail |-> AvailHeight(orientation), result |-> r,
                           hid |-> t.hid]]
           IN IF r = "none"
              THEN s1
              ELSE [s1 EXCEPT !.tasks = Append(@, [t EXCEPT !.kind = "emit", !.v = r])]
      [] t.kind = "emit" ->       \* now('visible') / now('hidden'), joined: line 165
           Deliver(s, t.v)

IsDue(s) == \E k \in 1..Len(s.tasks) : s.tasks[k].due = 0

FirstDue(tasks) == CHOOSE k \in 1..Len(tasks) :
                      /\ tasks[k].due = 0
                      /\ \A j \in 1..(k - 1) : tasks[j].due # 0

\* One run of the scheduler (and the microtask runs that follow it): the tasks
\* that are due, in the order they were scheduled; a task scheduled with no delay
\* by one of them runs after those already due.
RECURSIVE RunReadyTasks(_)
RunReadyTasks(s) ==
    IF ~IsDue(s)
    THEN s
    ELSE LET k == FirstDue(s.tasks)
         IN RunReadyTasks(RunTask([s EXCEPT !.tasks = RemoveAt(@, k)], s.tasks[k]))

\* lines 43-174 at subscribe time, with the emissions scheduled for that instant:
\* the seed of scan (118), startWith of documentVisibility (64) and of
\* isUnfocused (73)
subscribeB(s) ==
    LET s0 == [s EXCEPT
                 !.status = "active",
                 !.initialLayoutHeight = innerHeight,
                 !.approximateBrowserToolbarHeight =
                     AvailHeight(orientation) - innerHeight,
                 !.documentVisibility = visibilityState,
                 !.accHeights = assoc(getScreenOrientationType, innerHeight, EmptyMap),
                 !.layoutHeights = assoc(getScreenOrientationType, innerHeight, EmptyMap),
                 !.lastWrite = [NoWrite EXCEPT !.kind = "seed",
                                  !.o = getScreenOrientationType, !.h = innerHeight,
                                  !.unf = ~isAnyElementActive,
                                  !.hid = (visibilityState = "hidden"),
                                  !.win = innerHeight],
                 !.resizeScan = [width |-> innerWidth, height |-> innerHeight]]
    IN EmitUnfocused(s0, ~isAnyElementActive)

\* induceUnsubscribe that ends osk and leaves the scheduled tasks in place
induceUnsubscribeKeepTasks(s) ==
    IF s.status = "active"
    THEN [s EXCEPT !.status = "ended", !.cancelled = Len(s.tasks)]
    ELSE s

\* induceUnsubscribe that flips the subscription instead of ending it
induceUnsubscribeToggle(s) ==
    IF s.status = "active"
    THEN [s EXCEPT !.status = "ended", !.tasks = <<>>, !.cancelled = Len(s.tasks)]
    ELSE [s EXCEPT !.status = "active"]

\* induceUnsubscribe (50, 176): until(userUnsubscription) ends osk and disposes
\* the whole graph, its listeners and its scheduled tasks; a later call finds no
\* observer of the adapter
induceUnsubscribe(s) ==
    IF s.status = "active"
    THEN [s EXCEPT !.status = "ended", !.tasks = <<>>, !.cancelled = Len(s.tasks)]
    ELSE s

\* subscribe: initWithCallback, lines 38-41
initWithCallback(s) == IF isIOS THEN iosSubscribe(s) ELSE subscribeB(s)

\* the function subscribe returned
unsubscribe(s) == IF isIOS THEN iosUnsubscribe(s) ELSE induceUnsubscribe(s)

\* focusin that leaves the pending at(700, true) running
onFocusInKeepPending(s) ==
    EmitUnfocused(s, FALSE)

\* focusin on document.documentElement: now(false) under switchLatest, 58-76
onFocusIn(s) ==
    EmitUnfocused([s EXCEPT !.tasks = SelectSeqNot(@, "focus"),
                            !.superseded = @ \/ (\E k \in 1..Len(s.tasks) :
                                                    s.tasks[k].kind = "focus")],
                  FALSE)

\* focusout: at(700, true) under switchLatest replaces the pending one
onFocusOut(s) ==
    [s EXCEPT !.tasks = Append(SelectSeqNot(@, "focus"),
                               Task("focus", INPUT_ELEMENT_FOCUS_JUMP_DELAY))]

\* the snapshot with && for ||
onOrientationChangeAnd(s) ==
    LET isOSKFree == s.isUnfocused /\ (innerHeight = s.initialLayoutHeight)
        t == [Task("orient", SCREEN_ORIENTATION_TO_WINDOW_RESIZE_DELAY) EXCEPT
                !.f = isOSKFree, !.unf = s.isUnfocused,
                !.eq = (innerHeight = s.initialLayoutHeight),
                !.pre = innerHeight,
                !.hid = (visibilityState = "hidden")]
    IN [s EXCEPT !.tasks = Append(SelectSeqNot(@, "orient"), t)]

\* change of screen.orientation: the snapshot of 81-84, then debounce (85)
onOrientationChange(s) ==
    LET isOSKFree == s.isUnfocused \/ (innerHeight = s.initialLayoutHeight)
        t == [Task("orient", SCREEN_ORIENTATION_TO_WINDOW_RESIZE_DELAY) EXCEPT
                !.f = isOSKFree, !.unf = s.isUnfocused,
                !.eq = (innerHeight = s.initialLayoutHeight),
                !.pre = innerHeight,
                !.hid = (visibilityState = "hidden")]
    IN [s EXCEPT !.tasks = Append(SelectSeqNot(@, "orient"), t)]

\* visibilitychange: lines 61-65
onVisibilityChange(s, state) == [s EXCEPT !.documentVisibility = state]

\* resize of window with a delay in place of the debounce
onWindowResizeDelay(s) ==
    [s EXCEPT !.tasks = Append(@, [Task("resize", RESIZE_QUIET_PERIOD) EXCEPT
                                     !.hid = (visibilityState = "hidden")])]

\* resize of window: debounce(RESIZE_QUIET_PERIOD), line 126
onWindowResize(s) ==
    [s EXCEPT !.tasks = Append(SelectSeqNot(@, "resize"),
                               [Task("resize", RESIZE_QUIET_PERIOD) EXCEPT
                                  !.hid = (visibilityState = "hidden")])]

----------------------------------------------------------------------------
(* The focus-based emitter: src/unnamed/part_001 *)

\* the elements a focus event can have as its target
Targets ==
    { [tagName |-> "INPUT", type |-> "text"],
      [tagName |-> "INPUT", type |-> "checkbox"],
      [tagName |-> "TEXTAREA", type |-> "textarea"],
      [tagName |-> "DIV", type |-> "-"] }

\* The emitter after new EventEmitter(): the properties visible and hidden are
\* not set.  seen is history: what the listeners of 'change', 'show' and 'hide'
\* found in the two properties, for the last two events that were emitted on.
NoEmitter ==
    [visible |-> "undefined", hidden |-> "undefined", seen |-> <<>>,
     target |-> [tagName |-> "-", type |-> "-"]]

Last4(seq) == IF Len(seq) <= 4 THEN seq ELSE SubSeq(seq, Len(seq) - 3, Len(seq))

\* eventEmitter.emit(name): the listeners run before emit returns
emit(e, name, on) ==
    [e EXCEPT !.seen = Last4(Append(@, [event |-> name, on |-> on,
                                        visible |-> e.visible,
                                        hidden |-> e.hidden]))]

IsTextInput(target) == target.tagName = "INPUT" /\ target.type = "text"

\* the focusin listener, lines 5-12
onEmitterFocusIn(e, target) ==
    IF IsTextInput(target)
    THEN [emit(emit(e, "change", "focusin"), "show", "focusin") EXCEPT
            !.visible = "true", !.hidden = "false", !.target = target]
    ELSE [e EXCEPT !.target = target]

\* the focusout listener, lines 14-21
onEmitterFocusOut(e, target) ==
    IF IsTextInput(target)
    THEN [emit(emit(e, "change", "focusout"), "hide", "focusout") EXCEPT
            !.visible = "false", !.hidden = "true", !.target = target]
    ELSE [e EXCEPT !.target = target]

----------------------------------------------------------------------------
(* The state machine *)

Listening(i) == sub[i].status = "active"

WindowHeights == IF isIOS THEN IOSHeights ELSE Heights

Budget == IF Cardinality(clients) > 1 THEN MaxEventsTwo ELSE MaxEvents

\* the page as loaded
Page ==
    /\ platform \in Platforms
    /\ innerWidth = 400
    /\ innerHeight = (IF platform.isIOS THEN 800 ELSE 700)
    /\ orientation = "portrait"
    /\ visibilityState = "visible"
    /\ activeElement \in BOOLEAN
    /\ emitter = NoEmitter
    /\ sub = [i \in Consumers |-> NoSub]
    /\ nEvents = 0

Init == Page /\ clients = {1}

InitTwo == Page /\ clients = Consumers

Subscribe(i) ==
    /\ i \in clients
    /\ sub[i].status = "none"
    /\ sub' = [sub EXCEPT ![i] = initWithCallback(@)]
    /\ UNCHANGED <<envVars, nEvents>>

\* one adapter and one listener shared by every call of subscribe
ObserversShared(i) == Consumers

\* the subscriptions the function returned to consumer i acts on: the adapter
\* (index.js 50) and the listener (part_000 32) are made by the call of subscribe
Observers(i) == {i}

Unsubscribe(i) ==
    /\ sub[i].status # "none"
    /\ sub[i].calls < MaxCalls
    /\ sub' = [j \in Consumers |->
                 LET s == IF j \in Observers(i) THEN unsubscribe(sub[j]) ELSE sub[j]
                 IN IF j = i THEN [s EXCEPT !.calls = @ + 1] ELSE s]
    /\ UNCHANGED <<envVars, nEvents>>

\* the listener of each DOM event
Handle(s, event) ==
    CASE event = "focusin" -> onFocusIn(s)
      [] event = "focusout" -> onFocusOut(s)
      [] event = "change" -> onOrientationChange(s)
      [] event = "visibilitychange" -> onVisibilityChange(s, visibilityState')
      [] event = "resize" -> onWindowResize(s)

\* a DOM event reaches the listeners of every running Strategy B graph
Dispatch(event) ==
    /\ nEvents < Budget
    /\ nEvents' = nEvents + 1
    /\ sub' = [i \in Consumers |->
                 IF Listening(i) /\ ~isIOS THEN Handle(sub[i], event) ELSE sub[i]]

FocusIn ==
    /\ Dispatch("focusin")
    /\ activeElement' = TRUE
    /\ UNCHANGED <<platform, innerWidth, innerHeight, orientation, visibilityState, clients, emitter>>

FocusOut ==
    /\ Dispatch("focusout")
    /\ activeElement' = FALSE
    /\ UNCHANGED <<platform, innerWidth, innerHeight, orientation, visibilityState, clients, emitter>>

OrientationChange ==
    /\ Dispatch("change")
    /\ orientation' = IF orientation = "portrait" THEN "landscape" ELSE "portrait"
    /\ UNCHANGED <<platform, innerWidth, innerHeight, visibilityState, activeElement, clients, emitter>>

VisibilityChange ==
    /\ visibilityState' = IF visibilityState = "visible" THEN "hidden" ELSE "visible"
    /\ Dispatch("visibilitychange")
    /\ UNCHANGED <<platform, innerWidth, innerHeight, orientation, activeElement, clients, emitter>>

\* one resize event changes the width or the height; a rotation is two of
\* them within the quiet period of the debounce
WindowResize(w, h) ==
    /\ (w = innerWidth) # (h = innerHeight)
    /\ innerWidth' = w
    /\ innerHeight' = h
    /\ Dispatch("resize")
    /\ UNCHANGED <<platform, orientation, visibilityState, activeElement, clients, emitter>>

\* resize of visualViewport: only ios.subscribe listens to it
ViewportResize(height) ==
    /\ platform.isVisualViewportSupported
    /\ nEvents < Budget
    /\ nEvents' = nEvents + 1
    /\ sub' = [i \in Consumers |->
                 IF Listening(i) /\ isIOS THEN onResize(sub[i], height) ELSE sub[i]]
    /\ UNCHANGED envVars

\* the timer of consumer i's scheduler fires
RunScheduler(i) ==
    /\ IsDue(sub[i])
    /\ sub' = [sub EXCEPT ![i] = RunReadyTasks(@)]
    /\ UNCHANGED <<envVars, nEvents>>

\* 100 ms pass; no scheduler has a task that is due
Tick ==
    /\ \A i \in Consumers : ~IsDue(sub[i])
    /\ \E i \in Consumers : sub[i].tasks # <<>>
    /\ sub' = [i \in Consumers |->
                 [sub[i] EXCEPT !.tasks = [k \in 1..Len(@) |->
                                            [@[k] EXCEPT !.due = @ - 1]]]]
    /\ UNCHANGED <<envVars, nEvents>>

Next ==
    \/ \E i \in Consumers : Subscribe(i)
    \/ \E i \in Consumers : Unsubscribe(i)
    \/ FocusIn
    \/ FocusOut
    \/ OrientationChange
    \/ VisibilityChange
    \/ \E w \in Widths, h \in WindowHeights : WindowResize(w, h)
    \/ \E h \in ViewportHeights : ViewportResize(h)
    \/ \E i \in Consumers : RunScheduler(i)
    \/ Tick

Spec == Init /\ [][Next]_vars

\* a focusin / focusout on the page of part_001
EmitterFocusIn(target) ==
    /\ nEvents < MaxEmitterEvents
    /\ nEvents' = nEvents + 1
    /\ emitter' = onEmitterFocusIn(emitter, target)
    /\ activeElement' = TRUE
    /\ UNCHANGED <<platform, innerWidth, innerHeight, orientation, visibilityState,
                   clients, sub>>

EmitterFocusOut(target) ==
    /\ nEvents < MaxEmitterEvents
    /\ nEvents' = nEvents + 1
    /\ emitter' = onEmitterFocusOut(emitter, target)
    /\ activeElement' = FALSE
    /\ UNCHANGED <<platform, innerWidth, innerHeight, orientation, visibilityState,
                   clients, sub>>

NextEmitter ==
    \/ \E target \in Targets : EmitterFocusIn(target)
    \/ \E target \in Targets : EmitterFocusOut(target)

SpecEmitter == Init /\ [][NextEmitter]_vars

SpecTwo == InitTwo /\ [][Next]_vars

----------------------------------------------------------------------------
(* Properties *)

Last(seq) == seq[Len(seq)]

StrategyA == platform.isIOS /\ platform.isVisualViewportSupported
StrategyB == ~platform.isIOS

\* C1: in both strategies the consumer callback is never called twice in a row
\* with the same value.
C1_NoDuplicateEmissions ==
    \A i \in Consumers :
        Len(sub[i].cb) = 2 => sub[i].cb[1] # sub[i].cb[2]

\* a third callback was made after a forced 'hidden' was held back as a repeat
C1_Witness ==
    \E i \in Consumers :
        /\ StrategyB
        /\ sub[i].cb = <<"visible", "hidden">>
        /\ sub[i].lastConfirm.before = "hidden"
        /\ ~sub[i].lastConfirm.called

\* C2: after the returned unsubscribe function was called, the callback is never
\* called again, whatever events follow and whatever tasks were scheduled.
C2_NoCallbackAfterUnsubscribe ==
    [][\A i \in Consumers :
          sub[i].status = "ended" =>
              /\ sub'[i].cb = sub[i].cb
              /\ sub'[i].previous = sub[i].previous
              /\ sub'[i].status = "ended"]_vars

\* unsubscribe found tasks scheduled, and DOM events followed it
C2_Witness ==
    \E i \in Consumers :
        /\ sub[i].status = "ended"
        /\ sub[i].cancelled >= 2
        /\ nEvents = MaxEvents

\* C3: a second or later call of the returned unsubscribe function changes
\* nothing but the count of calls, in both strategies and in the unsupported case.
C3_UnsubscribeIdempotent ==
    [][\A i \in Consumers :
          (sub[i].calls >= 1 /\ sub'[i].calls > sub[i].calls) =>
              /\ sub' = [sub EXCEPT ![i].calls = @ + 1]
              /\ UNCHANGED <<envVars, nEvents>>]_vars

\* the function was called twice on a subscription that had made callbacks
C3_Witness ==
    \E i \in Consumers :
        /\ sub[i].calls = 2
        /\ sub[i].status = "ended"
        /\ sub[i].cb # <<>>
        /\ sub[i].cancelled > 0

\* C4: on an iOS platform without visualViewport, isSupported is false and
\* subscribe registers no listener, warns and never calls the callback.
C4_UnsupportedDegrades ==
    (platform.isIOS /\ ~platform.isVisualViewportSupported) =>
        /\ ~isSupported
        /\ \A i \in Consumers :
              /\ sub[i].status \in {"none", "noop"}
              /\ sub[i].status = "noop" => sub[i].warned
              /\ sub[i].cb = <<>>
              /\ sub[i].tasks = <<>>
              /\ sub[i].previous = "initial"

\* subscribe was called on the unsupported platform, its result called, and
\* DOM events followed
C4_Witness ==
    /\ platform.isIOS /\ ~platform.isVisualViewportSupported
    /\ \E i \in Consumers :
          sub[i].status = "noop" /\ sub[i].calls >= 1
    /\ nEvents >= 2

\* C5: Strategy A classifies a visual-viewport resize 'visible' exactly when
\* (window.innerHeight - height) / window.innerHeight > 0.1 and 'hidden'
\* otherwise; after the event the consumer holds that class; with window height
\* 800 the heights 800, 600, 790 give the callbacks hidden, visible, hidden.
C5_DirectRatio ==
    \A i \in Consumers :
        /\ \A k \in 1..Len(sub[i].vvLog) :
              LET e == sub[i].vvLog[k]
              IN /\ e.class \in {"visible", "hidden"}
                 /\ (e.class = "visible") <=> (10 * (e.inner - e.height) > e.inner)
                 /\ k > 1 => (e.called <=> e.class # sub[i].vvLog[k - 1].class)
        /\ (sub[i].vvLog # <<>> /\ sub[i].status = "active") =>
              Last(sub[i].cb) = Last(sub[i].vvLog).class
        /\ ( /\ Len(sub[i].vvLog) = 3
             /\ \A k \in 1..3 : sub[i].vvLog[k].inner = 800
             /\ sub[i].vvLog[1].height = 800
             /\ sub[i].vvLog[2].height = 600
             /\ sub[i].vvLog[3].height = 790 ) =>
              /\ sub[i].vvLog[1].class = "hidden"
              /\ sub[i].vvLog[2].class = "visible" /\ sub[i].vvLog[2].called
              /\ sub[i].vvLog[3].class = "hidden" /\ sub[i].vvLog[3].called
              /\ nEvents = 3 => sub[i].vvLog[1].called

\* the three events of the example, all delivered
C5_Witness ==
    \E i \in Consumers :
        /\ Len(sub[i].vvLog) = 3
        /\ \A k \in 1..3 : sub[i].vvLog[k].inner = 800 /\ sub[i].vvLog[k].called
        /\ sub[i].vvLog[1].height = 800
        /\ sub[i].vvLog[2].height = 600
        /\ sub[i].vvLog[3].height = 790
        /\ sub[i].cb = <<"visible", "hidden">>

\* C6: in Strategy B, with a layout height recorded for the current orientation,
\* a width-preserving resize sample gives 'visible' if height < 0.9 x that height
\* and the height delta is negative, 'hidden' if height equals it and the delta
\* is positive, and nothing otherwise; with 700 recorded, a resize to 600 gives
\* 'visible' and the resize back to 700 gives 'hidden'.
C6_BaselineClassification ==
    \A i \in Consumers :
        LET m == sub[i].lastSample
            shrunk == 10 * m.h < 9 * m.base /\ m.d < 0
            restored == m.h = m.base /\ m.d > 0
        IN (m.result # "-" /\ m.base # 0) =>
              /\ shrunk => m.result = "visible"
              /\ restored => m.result = "hidden"
              /\ (~shrunk /\ ~restored) => m.result = "none"
              /\ (m.base = 700 /\ m.h = 600 /\ m.d = -100) => m.result = "visible"
              /\ (m.base = 700 /\ m.h = 700 /\ m.d = 100) => m.result = "hidden"

\* the example: after 'visible', the resize back to 700 was classified 'hidden'
C6_Witness ==
    \E i \in Consumers :
        /\ sub[i].lastSample.base = 700
        /\ sub[i].lastSample.h = 700
        /\ sub[i].lastSample.d = 100
        /\ sub[i].lastSample.result = "hidden"
        /\ sub[i].cb = <<"visible", "hidden">>

C8_HiddenEventsIgnored ==
    \A i \in Consumers :
        /\ sub[i].lastWrite.kind = "orient" => ~sub[i].lastWrite.hid
        /\ sub[i].lastSample.hid => sub[i].lastSample.result \notin {"visible", "hidden"}

\* C8, amended: the map of layout heights does not change while the last
\* document visibility seen is 'hidden': a candidate that leaves its delay then
\* is dropped.
C8_VisibilityGate ==
    [][\A i \in Consumers :
          (sub[i].status = "active" /\ sub[i].documentVisibility = "hidden") =>
              /\ sub'[i].layoutHeights = sub[i].layoutHeights
              /\ sub'[i].accHeights = sub[i].accHeights]_vars

\* a candidate was dropped, and the map still holds its seed alone
C8_Witness ==
    \E i \in Consumers :
        /\ sub[i].status = "active"
        /\ sub[i].lastGate = "dropped"
        /\ sub[i].lastWrite.kind = "seed"
        /\ sub[i].documentVisibility = "hidden"

\* C9: a step in which one consumer subscribes, unsubscribes or has its
\* scheduler run changes the subscription of no other consumer.
C9_Independent ==
    [][(/\ nEvents' = nEvents
        /\ \E j \in Consumers :
              \/ IsDue(sub[j])
              \/ sub'[j].calls # sub[j].calls
              \/ sub'[j].status # sub[j].status)
       => Cardinality({i \in Consumers : sub'[i] # sub[i]}) <= 1]_vars

\* one consumer has unsubscribed, the other was called back after that
C9_Witness ==
    \E i, j \in Consumers :
        /\ sub[i].status = "ended" /\ sub[i].cb = <<"hidden">>
        /\ sub[j].status = "active" /\ sub[j].cb = <<"hidden", "visible">>
        /\ sub[i].cancelled > 0

\* C10, as stated: every value in the map was sampled while the engine was
\* unfocused (at subscribe, at a confirmed unfocus, or at an orientation change).
C10_WrittenOnlyUnfocused ==
    \A i \in Consumers :
        sub[i].lastWrite.kind # "-" => sub[i].lastWrite.unf

\* C10, amended: the seed is the window height at subscribe; a value from an
\* unfocus is the window height when isUnfocused turned true; a value from an
\* orientation change is the window height 700 ms after the change if at the
\* change isUnfocused held or the window height was the initial one, and else
\* screen.availHeight less the toolbar estimate.
C10_BaselineWrites ==
    \A i \in Consumers :
        LET w == sub[i].lastWrite
        IN /\ w.kind = "seed" => w.h = sub[i].initialLayoutHeight
           /\ w.kind = "unfocus" => (w.unf /\ w.h = w.win)
           /\ w.kind = "orient" =>
                 /\ w.f <=> (w.unf \/ w.eq)
                 /\ w.f => w.h = w.win
                 /\ ~w.f => w.h = AvailHeight(w.o)
                                     - sub[i].approximateBrowserToolbarHeight

\* the estimate was written, after an orientation change made while focused
C10_Witness ==
    \E i \in Consumers :
        /\ sub[i].lastWrite.kind = "orient"
        /\ ~sub[i].lastWrite.f
        /\ ~sub[i].lastWrite.unf

\* C11: the map of layout heights the decision reads has no key besides
\* 'portrait' and 'landscape', and once it has both it never changes again.
C11_FrozenMap ==
    [][\A i \in Consumers :
          /\ DOMAIN sub'[i].layoutHeights \subseteq Orientations
          /\ DOMAIN sub[i].layoutHeights = Orientations =>
                sub'[i].layoutHeights = sub[i].layoutHeights]_vars

\* the map is complete, and a later candidate with another height reached the
\* scan and was not let through
C11_Witness ==
    \E i \in Consumers :
        /\ sub[i].status = "active"
        /\ sub[i].skipping
        /\ DOMAIN sub[i].layoutHeights = Orientations
        /\ sub[i].accHeights # sub[i].layoutHeights

Pending(s, kind) == {k \in 1..Len(s.tasks) : s.tasks[k].kind = kind}

\* a candidate of layoutHeightOnUnfocus that has just entered delay(1000)
NewUnfocusCandidates(s) ==
    {k \in 1..Len(s.tasks) : /\ s.tasks[k].kind = "base"
                             /\ s.tasks[k].v = "unfocus"
                             /\ s.tasks[k].due = Ticks(LAYOUT_HEIGHT_DELAY)}

\* a focusout event was dispatched by this step
IsFocusOutStep ==
    /\ nEvents' # nEvents
    /\ ~activeElement'
    /\ <<innerWidth, innerHeight, orientation, visibilityState>>' =
           <<innerWidth, innerHeight, orientation, visibilityState>>

\* C12: after a focusin isUnfocused is false and no at(700, true) is pending;
\* a focusout leaves isUnfocused as it is and leaves exactly one at(700, true)
\* pending, 700 ms away; isUnfocused turns true only when such a task is due and
\* no focusin has followed the focusout. So a focusin that comes first cancels:
\* no true, no forced 'hidden', no candidate from that focusout.
C12_FocusInCancels ==
    [][StrategyB =>
       \A i \in Consumers :
          sub'[i].status = "active" =>
             /\ activeElement' =>
                   /\ ~sub'[i].isUnfocused
                   /\ Pending(sub'[i], "focus") = {}
                   /\ Cardinality(NewUnfocusCandidates(sub'[i]))
                         <= Cardinality(NewUnfocusCandidates(sub[i]))
                   /\ sub'[i].lastConfirm = sub[i].lastConfirm
             /\ (IsFocusOutStep /\ sub[i].status = "active") =>
                   /\ sub'[i].isUnfocused = sub[i].isUnfocused
                   /\ Cardinality(Pending(sub'[i], "focus")) = 1
                   /\ \A k \in Pending(sub'[i], "focus") :
                         sub'[i].tasks[k].due = Ticks(INPUT_ELEMENT_FOCUS_JUMP_DELAY)
             /\ (sub[i].status = "active" /\ ~sub[i].isUnfocused /\ sub'[i].isUnfocused) =>
                   \E k \in Pending(sub[i], "focus") : sub[i].tasks[k].due = 0]_vars

\* a focusin disposed the pending task of a focusout; nothing is scheduled any
\* more and the consumer was never called
C12_Witness ==
    \E i \in Consumers :
        /\ StrategyB
        /\ sub[i].status = "active"
        /\ sub[i].superseded
        /\ ~sub[i].isUnfocused
        /\ sub[i].tasks = <<>>
        /\ sub[i].cb = <<>>

\* C13: with no layout height recorded for the current orientation, a resize
\* sample gives 'visible' if its height delta is below -10% of screen.availHeight,
\* 'hidden' if it is above +10% of it, and nothing otherwise.
C13_FallbackClassification ==
    \A i \in Consumers :
        LET m == sub[i].lastSample
            shrink == 10 * m.d < -m.avail
            growth == 10 * m.d > m.avail
        IN (m.result # "-" /\ m.base = 0) =>
              /\ shrink => m.result = "visible"
              /\ growth => m.result = "hidden"
              /\ (~shrink /\ ~growth) => m.result = "none"

\* a resize of -100 was sampled in landscape before a height was recorded for it
C13_Witness ==
    \E i \in Consumers :
        /\ sub[i].lastSample.base = 0
        /\ sub[i].lastSample.avail = AvailHeight("landscape")
        /\ sub[i].lastSample.d = -100
        /\ sub[i].lastSample.result = "visible"
        /\ Last(sub[i].cb) = "visible"

\* the scheduler of consumer i ran in this step
IsSchedulerStep(i) ==
    /\ nEvents' = nEvents
    /\ sub[i].status = "active"
    /\ sub'[i].status = "active"
    /\ IsDue(sub[i])

\* the samples that have just entered the delay of line 147
NewSettles(s) ==
    {k \in Pending(s, "settle") :
        s.tasks[k].due = Ticks(LAYOUT_RESIZE_TO_LAYOUT_HEIGHT_FIX_DELAY)}

\* C14: the previous sample is the window size at subscribe and then the size
\* of every debounced sample, whatever its width; a debounced sample goes on to
\* the decision iff its width equals that of the previous sample, and carries
\* its height and its height less the previous sample's.
C14_WidthPreserving ==
    [][StrategyB =>
       \A i \in Consumers :
          /\ (sub[i].status = "none" /\ sub'[i].status = "active") =>
                sub'[i].resizeScan = [width |-> innerWidth, height |-> innerHeight]
          /\ (IsSchedulerStep(i) /\ \E k \in Pending(sub[i], "resize") :
                                       sub[i].tasks[k].due = 0) =>
                LET prev == sub[i].resizeScan
                    new == NewSettles(sub'[i])
                IN /\ sub'[i].resizeScan = [width |-> innerWidth, height |-> innerHeight]
                   /\ prev.width # innerWidth => new = {}
                   /\ prev.width = innerWidth =>
                         /\ Cardinality(new) = 1
                         /\ \A k \in new :
                               /\ sub'[i].tasks[k].h = innerHeight
                               /\ sub'[i].tasks[k].d = innerHeight - prev.height
          /\ (IsSchedulerStep(i) /\ Pending(sub[i], "resize") = {}) =>
                /\ sub'[i].resizeScan = sub[i].resizeScan
                /\ NewSettles(sub'[i]) = {}]_vars

\* a sample of another width was dropped and became the previous sample: the
\* next one, of the same width and 100 lower, is on its way to the decision
C14_Witness ==
    \E i \in Consumers :
        /\ StrategyB
        /\ sub[i].resizeScan = [width |-> 800, height |-> 600]
        /\ sub[i].lastSample = NoSample
        /\ \E k \in Pending(sub[i], "settle") :
              sub[i].tasks[k].h = 600 /\ sub[i].tasks[k].d = -100

\* the candidates of layoutHeightOnOSKFreeOrientationChange that have just
\* entered delay(1000)
NewOrientCandidates(s) ==
    {k \in 1..Len(s.tasks) : /\ s.tasks[k].kind = "base"
                             /\ s.tasks[k].v = "orient"
                             /\ s.tasks[k].due = Ticks(LAYOUT_HEIGHT_DELAY)}

\* C15, as stated: the test is made when the settle delay is over: the
\* candidate is the window height if the engine is unfocused then or the window
\* height then equals the one before the rotation, and the estimate otherwise.
C15_SampledAfterSettle ==
    \A i \in Consumers :
        \A k \in NewOrientCandidates(sub[i]) :
            LET t == sub[i].tasks[k]
            IN t.h = IF t.uf \/ t.d = t.pre
                     THEN t.d
                     ELSE AvailHeight(t.o) - sub[i].approximateBrowserToolbarHeight

\* C15, amended: the test is made at the change event, on isUnfocused and on
\* the window height against the height at subscribe; 700 ms after the last
\* change event the candidate for the orientation of that moment is the window
\* height of that moment if the test held, and the estimate otherwise; the
\* estimate uses screen.availHeight less the window height, both at subscribe.
C15_OrientationCandidate ==
    [][StrategyB =>
       \A i \in Consumers :
          /\ (sub[i].status = "none" /\ sub'[i].status = "active") =>
                sub'[i].approximateBrowserToolbarHeight =
                    AvailHeight(orientation) - innerHeight
          /\ (sub[i].status = "active" /\ orientation' # orientation) =>
                /\ Cardinality(Pending(sub'[i], "orient")) = 1
                /\ \A k \in Pending(sub'[i], "orient") :
                      /\ sub'[i].tasks[k].due =
                            Ticks(SCREEN_ORIENTATION_TO_WINDOW_RESIZE_DELAY)
                      /\ sub'[i].tasks[k].f <=>
                            (sub[i].isUnfocused
                               \/ innerHeight = sub[i].initialLayoutHeight)
          /\ IsSchedulerStep(i) =>
                LET due == {k \in Pending(sub[i], "orient") : sub[i].tasks[k].due = 0}
                    new == NewOrientCandidates(sub'[i])
                IN /\ Cardinality(new) = Cardinality(due)
                   /\ \A k \in due : \A n \in new :
                         /\ sub'[i].tasks[n].o = orientation
                         /\ sub'[i].tasks[n].h =
                               IF sub[i].tasks[k].f
                               THEN innerHeight
                               ELSE AvailHeight(orientation)
                                      - sub[i].approximateBrowserToolbarHeight]_vars

\* the test held at the change event, with an element focused; the window
\* height changed before the debounce was over, and the candidate is that
\* later window height
C15_Witness ==
    \E i \in Consumers :
        \E k \in NewOrientCandidates(sub[i]) :
            LET t == sub[i].tasks[k]
            IN /\ t.f /\ ~t.unf /\ ~t.uf
               /\ t.d # t.pre
               /\ t.h = t.d

\* the candidates that leave delay(1000) in this state
DueCandidates(s) ==
    {k \in 1..Len(s.tasks) : s.tasks[k].kind = "base" /\ s.tasks[k].due = 0}

\* C16: when isUnfocused turns true, a candidate with the orientation and the
\* window height of that moment enters delay(1000); when it leaves the delay it
\* is dropped and the map left as it is if the last document visibility seen
\* is 'hidden', and is written under its orientation otherwise, as long as the
\* map is not complete.
C16_UnfocusCandidate ==
    [][StrategyB =>
       \A i \in Consumers :
          /\ (sub'[i].status = "active" /\ ~sub[i].isUnfocused /\ sub'[i].isUnfocused) =>
                \E k \in NewUnfocusCandidates(sub'[i]) :
                    /\ sub'[i].tasks[k].o = orientation
                    /\ sub'[i].tasks[k].h = innerHeight
          /\ (IsSchedulerStep(i) /\ Cardinality(DueCandidates(sub[i])) = 1) =>
                \A k \in DueCandidates(sub[i]) :
                    LET t == sub[i].tasks[k]
                    IN t.v = "unfocus" =>
                          IF sub[i].documentVisibility = "hidden"
                          THEN /\ sub'[i].layoutHeights = sub[i].layoutHeights
                               /\ sub'[i].lastGate = "dropped"
                          ELSE /\ sub'[i].lastGate = "passed"
                               /\ ~sub[i].skipping =>
                                     sub'[i].layoutHeights =
                                         assoc(t.o, t.h, sub[i].layoutHeights)]_vars

\* a focus-out was confirmed at window height 600 and, a second later, 600 was
\* written over the 700 the map was created with
C16_Witness ==
    \E i \in Consumers :
        /\ sub[i].lastConfirm.before # "-"
        /\ sub[i].lastGate = "passed"
        /\ sub[i].lastWrite.kind = "unfocus"
        /\ sub[i].lastWrite.h = 600
        /\ sub[i].initialLayoutHeight = 700
        /\ sub[i].layoutHeights = [x \in {"portrait"} |-> 600]

\* this step dispatched a focusin or focusout / a change / a resize
IsFocusStep ==
    /\ nEvents' # nEvents
    /\ <<innerWidth, innerHeight, orientation, visibilityState>>' =
           <<innerWidth, innerHeight, orientation, visibilityState>>

IsChangeStep == orientation' # orientation

IsResizeStep == <<innerWidth, innerHeight>>' # <<innerWidth, innerHeight>>

\* the tasks of delay(): the samples before the decision (147) and the
\* candidates before rejectCapture (112)
Delayed(s) == SelectSeq(s.tasks, LAMBDA t : t.kind \in {"settle", "base"})

\* C17, as stated: at most one delayed action of each kind (focus-out grace,
\* orientation settle, resize quiet period, resize settle) is pending, and an
\* event cancels the pending delayed actions of its kind.
C17_AllCancellable ==
    [][StrategyB =>
       \A i \in Consumers :
          (sub[i].status = "active" /\ sub'[i].status = "active") =>
             /\ \A kind \in {"focus", "orient", "resize", "settle"} :
                   Cardinality(Pending(sub'[i], kind)) <= 1
             /\ IsFocusStep =>
                   \A k \in Pending(sub'[i], "focus") :
                       sub'[i].tasks[k].due = Ticks(INPUT_ELEMENT_FOCUS_JUMP_DELAY)
             /\ IsChangeStep =>
                   \A k \in Pending(sub'[i], "orient") :
                       sub'[i].tasks[k].due =
                           Ticks(SCREEN_ORIENTATION_TO_WINDOW_RESIZE_DELAY)
             /\ IsResizeStep =>
                   /\ \A k \in Pending(sub'[i], "resize") :
                         sub'[i].tasks[k].due = Ticks(RESIZE_QUIET_PERIOD)
                   /\ Pending(sub'[i], "settle") = {}]_vars

\* C17, amended: the focus-out grace period, the orientation debounce and the
\* resize debounce are cancelled by the next event of their kind, so at most
\* one of each is pending. The delay before the decision and the delay before
\* the visibility gate are not cancelled by any event: what entered them takes
\* effect when they are over. At most one sample is in the delay before the
\* decision, which is shorter than the quiet period.
C17_Cancellable ==
    [][StrategyB =>
       \A i \in Consumers :
          (sub[i].status = "active" /\ sub'[i].status = "active") =>
             /\ \A kind \in {"focus", "orient", "resize", "settle"} :
                   Cardinality(Pending(sub'[i], kind)) <= 1
             /\ IsFocusStep =>
                   \A k \in Pending(sub'[i], "focus") :
                       sub'[i].tasks[k].due = Ticks(INPUT_ELEMENT_FOCUS_JUMP_DELAY)
             /\ IsChangeStep =>
                   \A k \in Pending(sub'[i], "orient") :
                       sub'[i].tasks[k].due =
                           Ticks(SCREEN_ORIENTATION_TO_WINDOW_RESIZE_DELAY)
             /\ IsResizeStep =>
                   \A k \in Pending(sub'[i], "resize") :
                       sub'[i].tasks[k].due = Ticks(RESIZE_QUIET_PERIOD)
             /\ nEvents' # nEvents => Delayed(sub'[i]) = Delayed(sub[i])
             /\ IsSchedulerStep(i) =>
                   \A k \in Pending(sub[i], "settle") :
                       sub[i].tasks[k].due = 0 =>
                          /\ sub'[i].lastSample.h = sub[i].tasks[k].h
                          /\ sub'[i].lastSample.d = sub[i].tasks[k].d]_vars

\* a resize event came while a sample was in the delay before the decision:
\* the debounce of the new event and the older sample are both pending
C17_Witness ==
    \E i \in Consumers :
        /\ Pending(sub[i], "settle") # {}
        /\ \E k \in Pending(sub[i], "resize") :
              sub[i].tasks[k].due = Ticks(RESIZE_QUIET_PERIOD)

\* C18: when isUnfocused is true and nothing is scheduled, the last value the
\* consumer was called with is 'hidden'.
C18_UnfocusedMeansHidden ==
    \A i \in Consumers :
        (/\ StrategyB
         /\ sub[i].status = "active"
         /\ sub[i].isUnfocused
         /\ sub[i].tasks = <<>>) => sub[i].previous = "hidden"

\* C19: subscribe with nothing focused calls the consumer with 'hidden' at once,
\* with no DOM event, and makes a candidate as a confirmed unfocus does;
\* subscribe with an element focused calls nothing and schedules nothing, and
\* then nothing happens until a DOM event is dispatched; while isUnfocused is
\* true, the at(700, true) of a focusout changes nothing when it fires.
C19_InitialUnfocused ==
    [][StrategyB =>
       \A i \in Consumers :
          /\ (sub[i].status = "none" /\ sub'[i].status = "active") =>
                /\ nEvents' = nEvents
                /\ IF activeElement
                   THEN /\ sub'[i].cb = <<>>
                        /\ sub'[i].tasks = <<>>
                        /\ ~sub'[i].isUnfocused
                   ELSE /\ sub'[i].cb = <<"hidden">>
                        /\ sub'[i].isUnfocused
                        /\ Cardinality(NewUnfocusCandidates(sub'[i])) = 1
          /\ (sub[i].status = "active" /\ sub[i].tasks = <<>> /\ nEvents' = nEvents) =>
                /\ sub'[i].cb = sub[i].cb
                /\ sub'[i].tasks = <<>>
          /\ (IsSchedulerStep(i) /\ sub[i].isUnfocused) =>
                \A k \in Pending(sub[i], "focus") :
                    (\A j \in 1..Len(sub[i].tasks) :
                         sub[i].tasks[j].due = 0 <=> j = k) =>
                       sub'[i] = [sub[i] EXCEPT !.tasks = RemoveAt(@, k)]]_vars

\* subscribed with nothing focused; the one event since was a focusout, its
\* at(700, true) has fired, and the consumer was called once
C19_Witness ==
    \E i \in Consumers :
        /\ StrategyB
        /\ sub[i].status = "active"
        /\ nEvents = 1
        /\ ~activeElement
        /\ <<innerWidth, innerHeight, orientation, visibilityState>> =
               <<400, 700, "portrait", "visible">>
        /\ sub[i].isUnfocused
        /\ sub[i].tasks = <<>>
        /\ sub[i].cb = <<"hidden">>
        /\ sub[i].lastConfirm = NoConfirm
        /\ sub[i].lastWrite.kind = "unfocus"

Flags(e) == <<e.visible, e.hidden>>

\* C20: a listener of 'change', 'show' or 'hide' finds visible = true and
\* hidden = false when the event stems from a focusin and visible = false and
\* hidden = true when it stems from a focusout; once set, visible and hidden
\* differ; a focus event on anything but a text input emits nothing and leaves
\* both as they are.
C20_FlagsDescribeEvent ==
    [][/\ \A k \in 1..Len(emitter'.seen) :
             LET r == emitter'.seen[k]
             IN <<r.visible, r.hidden>> =
                   IF r.on = "focusin" THEN <<"true", "false">>
                                       ELSE <<"false", "true">>
       /\ emitter'.visible # "undefined" => emitter'.visible # emitter'.hidden
       /\ ~IsTextInput(emitter'.target) =>
             /\ Flags(emitter') = Flags(emitter)
             /\ emitter'.seen = emitter.seen]_vars

====
